---- MODULE Spec2Model ----
(***************************************************************************)
(* Model of Code/ForModeling/modeling.ipynb: the notebook's cells run top  *)
(* to bottom as one linear pipeline (load, extract, split, scale, compare, *)
(* grid search, final fit, predict/export, MLflow logging).                *)
(*                                                                         *)
(* Numbers are integers.  Quantities the notebook computes as floats are   *)
(* kept exact as pairs: <<num, den>> is the rational num/den, and a scaled *)
(* feature is <<num, den2>> standing for num / sqrt(den2).                 *)
(* The regressors of scikit-learn / xgboost are library code: fitting is a *)
(* deterministic function of (estimator configuration, training data,      *)
(* random_state) and is modelled by Fit/Predict below.                     *)
(***************************************************************************)
EXTENDS Integers, Sequences, FiniteSets, TLC

\* ------------------------------------------------------------------ bounds
MinRows == 7
MaxRows == 8
NumSeeds == 3
NumRngStates == 2

\* ------------------------------------------------------- program constants
TEST_SIZE_DEN == 5
RANDOM_STATE == 8888
CV == 5
NUM_EPOCHS == 100
ESTIMATOR_SEED == 42

\* Python's None; a table is a record with other fields, so None differs
\* from every table.
None == [none |-> TRUE]
NoExc == "NoExc"

FeatureCols == <<"gender", "height_cm", "weight_kg">>
TargetCols == <<"femur_dim", "tibia_dim">>
PredCols == <<"femur_dim_pred", "tibia_dim_pred">>

train_file_path == "tka_data.csv"
test_file_path == "tka_data_test.csv"
predictions_file_path == "Predictions.csv"

MSG_NOT_FOUND == "File not found. Please provide valid file paths."
MSG_ERROR == "An error occurred while loading the data:"
MSG_LOADED == "Data Loaded Successfully!"

\* ----------------------------------------------------------- small helpers
RECURSIVE SumSeq(_)
SumSeq(s) == IF s = <<>> THEN 0 ELSE Head(s) + SumSeq(Tail(s))

RECURSIVE ProdSeq(_)
ProdSeq(s) == IF s = <<>> THEN 1 ELSE Head(s) * ProdSeq(Tail(s))

Abs(x) == IF x < 0 THEN -x ELSE x

Range(s) == {s[i] : i \in 1..Len(s)}

IndexOf(s, x) == CHOOSE i \in 1..Len(s) : s[i] = x

\* --------------------------------------------------------- CSV text format
\* A cell of a file is a sequence of one-character strings.
Digits == <<"0", "1", "2", "3", "4", "5", "6", "7", "8", "9">>

RECURSIVE FormatNat(_)
FormatNat(n) ==
  IF n < 10 THEN <<Digits[n + 1]>>
  ELSE FormatNat(n \div 10) \o <<Digits[(n % 10) + 1]>>

\* A cell of a table is a number or a string (object dtype).
Num(k) == [isnum |-> TRUE, n |-> k, s |-> <<>>]
Str(t) == [isnum |-> FALSE, n |-> 0, s |-> t]

\* to_csv writes a number in decimal, a string as it is.
FormatCell(c) ==
  IF c.isnum
  THEN (IF c.n < 0 THEN <<"-">> \o FormatNat(-c.n) ELSE FormatNat(c.n))
  ELSE c.s

DigitSet == {"0", "1", "2", "3", "4", "5", "6", "7", "8", "9"}
IsDigit(c) == c \in DigitSet

DigitVal(c) == IndexOf(Digits, c) - 1

RECURSIVE ParseNat(_)
ParseNat(t) ==
  IF Len(t) = 1 THEN DigitVal(t[1])
  ELSE 10 * ParseNat(SubSeq(t, 1, Len(t) - 1)) + DigitVal(t[Len(t)])

IsNatText(t) == Len(t) > 0 /\ \A i \in 1..Len(t) : IsDigit(t[i])

IsNumText(t) ==
  \/ IsNatText(t)
  \/ Len(t) > 1 /\ t[1] = "-" /\ IsNatText(Tail(t))

ParseNum(t) == IF t[1] = "-" THEN -ParseNat(Tail(t)) ELSE ParseNat(t)

\* to_csv with the default index=True: the index is written as a first,
\* unnamed column.
to_csv_index(df) ==
  [kind |-> "file",
   header |-> <<"">> \o df.columns,
   lines |-> [i \in 1..Len(df.rows) |->
                <<FormatNat(df.index[i])>>
                  \o [j \in 1..Len(df.columns) |-> FormatCell(df.rows[i][j])]]]

\* A table (DataFrame): ordered column names, ordered rows (a row being the
\* sequence of its cells in column order) and the index label of each row
\* (read_csv gives the RangeIndex 0..n-1).  A file: header and lines.
\* to_csv(index=False): the header line, then one line per row in row order.
to_csv(df) ==
  [kind |-> "file",
   header |-> df.columns,
   lines |-> [i \in 1..Len(df.rows) |->
                [j \in 1..Len(df.columns) |-> FormatCell(df.rows[i][j])]]]

\* pd.read_csv on a well-formed file: a column is numeric when every one of
\* its cells parses as a number, otherwise it keeps the text of its cells.
ColumnIsNumeric(file, j) ==
  \A i \in 1..Len(file.lines) : IsNumText(file.lines[i][j])

read_csv_ok(file) ==
  [columns |-> file.header,
   index |-> [i \in 1..Len(file.lines) |-> i - 1],
   rows |-> [i \in 1..Len(file.lines) |->
               [j \in 1..Len(file.header) |->
                  IF ColumnIsNumeric(file, j)
                  THEN Num(ParseNum(file.lines[i][j]))
                  ELSE Str(file.lines[i][j])]]]

\* Outcome of pd.read_csv on what a path holds: the table, or the exception
\* it raises ("FileNotFoundError" for an absent file, another Exception such
\* as ParserError or PermissionError for a file that cannot be read).
ABSENT == [kind |-> "absent"]
UNREADABLE == [kind |-> "unreadable"]

read_csv(content) ==
  IF content.kind = "absent"
  THEN [raised |-> "FileNotFoundError", value |-> None]
  ELSE IF content.kind = "unreadable"
  THEN [raised |-> "Exception", value |-> None]
  ELSE [raised |-> NoExc, value |-> read_csv_ok(content)]

\* load_data with one try per file: a table that was read is returned even
\* when the other read failed.
load_data_each(fs, train_path, test_path) ==
  LET r1 == read_csv(fs[train_path])
      r2 == read_csv(fs[test_path])
      raised == IF r1.raised # NoExc THEN r1.raised ELSE r2.raised
  IN [ret |-> <<r1.value, r2.value>>,
      printed |-> IF raised = NoExc THEN <<>>
                  ELSE IF raised = "FileNotFoundError" THEN <<MSG_NOT_FOUND>>
                  ELSE <<MSG_ERROR>>]

\* load_data: both reads inside one try; either handler prints and returns
\* (None, None).
load_data(fs, train_path, test_path) ==
  LET r1 == read_csv(fs[train_path])
      r2 == read_csv(fs[test_path])
      raised == IF r1.raised # NoExc THEN r1.raised ELSE r2.raised
  IN IF raised = NoExc
     THEN [ret |-> <<r1.value, r2.value>>, printed |-> <<>>]
     ELSE IF raised = "FileNotFoundError"
     THEN [ret |-> <<None, None>>, printed |-> <<MSG_NOT_FOUND>>]
     ELSE [ret |-> <<None, None>>, printed |-> <<MSG_ERROR>>]

\* ------------------------------------------------------------ table access
HasCol(df, name) == name \in Range(df.columns)

\* df[name]: the column's cells in row order.
Col(df, name) ==
  [i \in 1..Len(df.rows) |-> df.rows[i][IndexOf(df.columns, name)]]

\* df[[names]]: projection on the listed columns, row order kept.
Project(df, names) ==
  [columns |-> names,
   index |-> df.index,
   rows |-> [i \in 1..Len(df.rows) |->
               [j \in 1..Len(names) |->
                  df.rows[i][IndexOf(df.columns, names[j])]]]]

\* df[name] = vals: an existing column is overwritten in place, a new one is
\* appended as the last column.
SetCol(df, name, vals) ==
  IF HasCol(df, name)
  THEN [columns |-> df.columns,
        index |-> df.index,
        rows |-> [i \in 1..Len(df.rows) |->
                    [df.rows[i] EXCEPT ![IndexOf(df.columns, name)] = vals[i]]]]
  ELSE [columns |-> Append(df.columns, name),
        index |-> df.index,
        rows |-> [i \in 1..Len(df.rows) |-> Append(df.rows[i], vals[i])]]

\* Rows of a table taken at the given positions, in that order.
Take(rows, idx) == [k \in 1..Len(idx) |-> rows[idx[k]]]

\* The rows of a table at the given positions, in that order, with their
\* index labels (DataFrame.iloc).
ILoc(df, idx) ==
  [columns |-> df.columns,
   index |-> Take(df.index, idx),
   rows |-> Take(df.rows, idx)]

\* The numeric matrix of a table (DataFrame -> ndarray).
Values(df) ==
  [i \in 1..Len(df.rows) |-> [j \in 1..Len(df.columns) |-> df.rows[i][j].n]]

\* ------------------------------------------------------------ partitioning
\* numpy's RandomState: a generator state and its next state.
RNG_MOD == 65537
RngNext(st) == (st * 75 + 74) % RNG_MOD

\* check_random_state: an int seeds a fresh generator; None (NoSeed) takes
\* the process-wide generator, whose state is whatever earlier draws left.
NoSeed == -1

\* random_state left out: always the process-wide generator.
check_random_state_global(random_state, np_global) == np_global

check_random_state(random_state, np_global) ==
  IF random_state = NoSeed THEN np_global ELSE random_state % RNG_MOD

Swap(a, i, j) == [a EXCEPT ![i] = a[j], ![j] = a[i]]

\* RandomState.permutation(n): Fisher-Yates over 1..n, from the last position
\* down, each position swapped with a drawn position not after it.
RECURSIVE Shuffle(_, _, _)
Shuffle(a, i, st) ==
  IF i <= 1 THEN a
  ELSE LET st2 == RngNext(st)
           j == (st2 % i) + 1
       IN Shuffle(Swap(a, i, j), i - 1, st2)

permutation(st, n) == Shuffle([k \in 1..n |-> k], n, st)

\* ceil(test_size * n) for test_size = 1 / den.
NTest(n, den) == (n + den - 1) \div den

\* train_test_split(features, targets, test_size, random_state): one
\* permutation of the row positions; its first n_test positions are the test
\* rows, the rest the train rows; both tables are indexed with the same
\* positions.
train_test_split(feats, targs, den, random_state, np_global) ==
  LET n == Len(feats.rows)
      n_test == NTest(n, den)
      perm == permutation(check_random_state(random_state, np_global), n)
      test_idx == SubSeq(perm, 1, n_test)
      train_idx == SubSeq(perm, n_test + 1, n)
  IN [X_train |-> ILoc(feats, train_idx),
      X_test |-> ILoc(feats, test_idx),
      y_train |-> ILoc(targs, train_idx),
      y_test |-> ILoc(targs, test_idx)]

\* ----------------------------------------------------------------- scaling
\* StandardScaler: per feature, mean_ = sum/n as <<sum, n>> and
\* var_ = (n*sumsq - sum^2)/n^2 as <<n*sumsq - sum^2, n^2>>.
ColumnOf(X, j) == [i \in 1..Len(X) |-> X[i][j]]
Squares(c) == [i \in 1..Len(c) |-> c[i] * c[i]]

NewScaler == [fitted |-> FALSE, mean_ |-> <<>>, var_ |-> <<>>, fit_calls |-> 0]

ScalerFit(sc, X) ==
  LET n == Len(X)
      d == Len(X[1])
  IN [fitted |-> TRUE,
      mean_ |-> [j \in 1..d |-> <<SumSeq(ColumnOf(X, j)), n>>],
      var_ |-> [j \in 1..d |->
                  <<n * SumSeq(Squares(ColumnOf(X, j)))
                      - SumSeq(ColumnOf(X, j)) * SumSeq(ColumnOf(X, j)),
                    n * n>>],
      fit_calls |-> sc.fit_calls + 1]

\* (x - mean_) / scale_, scale_ being sqrt(var_), or 1 for a constant
\* feature: the value <<num, den2>> stands for num / sqrt(den2).
ScaleValue(sc, j, x) ==
  LET s == sc.mean_[j][1]
      n == sc.mean_[j][2]
      v == sc.var_[j][1]
  IN <<n * x - s, IF v = 0 THEN n * n ELSE v>>

\* transform that fits again on what it is given (fit_transform in the place
\* of transform).
ScalerTransformRefit(sc, X) ==
  LET sc2 == [fitted |-> TRUE,
              mean_ |-> [j \in 1..Len(X[1]) |-> <<SumSeq(ColumnOf(X, j)), Len(X)>>],
              var_ |-> [j \in 1..Len(X[1]) |->
                          <<Len(X) * SumSeq(Squares(ColumnOf(X, j)))
                              - SumSeq(ColumnOf(X, j)) * SumSeq(ColumnOf(X, j)),
                            Len(X) * Len(X)>>],
              fit_calls |-> sc.fit_calls + 1]
  IN [scaler |-> sc2,
      out |-> [i \in 1..Len(X) |->
                 [j \in 1..Len(X[i]) |->
                    <<Len(X) * X[i][j] - sc2.mean_[j][1],
                      IF sc2.var_[j][1] = 0 THEN Len(X) * Len(X)
                      ELSE sc2.var_[j][1]>>]]]

\* transform reads the statistics and returns the scaled matrix; the scaler
\* object it leaves behind is returned with it.
ScalerTransform(sc, X) ==
  [scaler |-> sc,
   out |-> [i \in 1..Len(X) |->
              [j \in 1..Len(X[i]) |-> ScaleValue(sc, j, X[i][j])]]]

ScalerFitTransform(sc, X) == ScalerTransform(ScalerFit(sc, X), X)

\* -------------------------------------------------------------- estimators
\* An estimator configuration.  learning_rate is in hundredths (0.01 -> 1,
\* 0.1 -> 10, 1.0 -> 100); a field an estimator does not have is 0.
Estimator(cls, inner, n_est, lr, depth, leaf, seed) ==
  [cls |-> cls, inner |-> inner, n_estimators |-> n_est, learning_rate |-> lr,
   max_depth |-> depth, min_samples_leaf |-> leaf, random_state |-> seed]

GradientBoosting(n_est, lr, depth, leaf) ==
  Estimator("MultiOutputRegressor", "GradientBoostingRegressor",
            n_est, lr, depth, leaf, ESTIMATOR_SEED)

base_estimators ==
  << Estimator("LinearRegression", "", 0, 0, 0, 0, 0),
     Estimator("Ridge", "", 0, 0, 0, 0, 0),
     Estimator("Lasso", "", 0, 0, 0, 0, 0),
     Estimator("MultiOutputRegressor", "DecisionTreeRegressor",
               0, 0, 0, 1, ESTIMATOR_SEED),
     Estimator("MultiOutputRegressor", "RandomForestRegressor",
               100, 0, 0, 1, ESTIMATOR_SEED),
     GradientBoosting(100, 10, 3, 1),
     Estimator("MultiOutputRegressor", "XGBRegressor",
               0, 0, 0, 0, ESTIMATOR_SEED) >>

\* base_estimator.__class__.__name__
ClassName(est) == est.cls

\* What distinguishes one learner from another in the library's arithmetic.
FamilyCode(est) ==
  IF est.cls = "LinearRegression" THEN 1
  ELSE IF est.cls = "Ridge" THEN 2
  ELSE IF est.cls = "Lasso" THEN 3
  ELSE IF est.inner = "DecisionTreeRegressor" THEN 4
  ELSE IF est.inner = "RandomForestRegressor" THEN 5
  ELSE IF est.inner = "GradientBoostingRegressor" THEN 6
  ELSE 7

EstCode(est) ==
  17 * FamilyCode(est) + 7 * (est.n_estimators \div 50) + 3 * est.learning_rate
    + 11 * est.max_depth + 13 * est.min_samples_leaf

\* fit(X, y): the learned state is a function of the configuration and the
\* training data alone (every stochastic learner here carries an int
\* random_state, so each fit reseeds); what an earlier fit left is discarded.
RowSig(x) == SumSeq([j \in 1..Len(x) |-> Abs(x[j][1])])

Fit(est, X, y) ==
  [center |-> [k \in 1..Len(y[1]) |-> SumSeq(ColumnOf(y, k)) \div Len(y)],
   digest |-> (SumSeq([i \in 1..Len(X) |-> RowSig(X[i])])
                 + SumSeq([i \in 1..Len(y) |-> SumSeq(y[i])])) % 7]

\* A fit that continues from what the previous fit left (warm start).
ModelFitWarm(m, X, y) ==
  [est |-> m.est,
   fitted |-> IF m.fitted = None THEN Fit(m.est, X, y)
              ELSE [Fit(m.est, X, y) EXCEPT
                      !.digest = (m.fitted.digest + 1) % 7]]

ModelFit(m, X, y) == [est |-> m.est, fitted |-> Fit(m.est, X, y)]

NewModel(est) == [est |-> est, fitted |-> None]

\* predict(X): one row of len(targets) predictions per input row, in row
\* order, read off the learned state.
PredictRow(m, x) ==
  [k \in 1..Len(m.fitted.center) |->
     m.fitted.center[k]
       + (((EstCode(m.est) * (m.fitted.digest + RowSig(x) + k + 1)) % 31) % 5)
       - 2]

Predict(m, X) == [i \in 1..Len(X) |-> PredictRow(m, X[i])]

\* ----------------------------------------------------------------- metrics
SqErr(a, b) == (a - b) * (a - b)
AbsErr(a, b) == Abs(a - b)

SumSqErr(y_true, y_pred) ==
  SumSeq([i \in 1..Len(y_true) |->
            SumSeq([k \in 1..Len(y_true[i]) |->
                      SqErr(y_true[i][k], y_pred[i][k])])])

SumAbsErr(y_true, y_pred) ==
  SumSeq([i \in 1..Len(y_true) |->
            SumSeq([k \in 1..Len(y_true[i]) |->
                      AbsErr(y_true[i][k], y_pred[i][k])])])

\* Uniform average over the outputs: <<total, rows * outputs>>.
mean_squared_error(y_true, y_pred) ==
  <<SumSqErr(y_true, y_pred), Len(y_true) * Len(y_true[1])>>

mean_absolute_error(y_true, y_pred) ==
  <<SumAbsErr(y_true, y_pred), Len(y_true) * Len(y_true[1])>>

\* r2_score: per output k, 1 - ss_res/ss_tot, kept as
\* <<n * ss_res, n * ss_tot>>; the score is the mean of 1 - a/b over k.
r2_score(y_true, y_pred) ==
  [k \in 1..Len(y_true[1]) |->
     LET n == Len(y_true)
         yk == ColumnOf(y_true, k)
         pk == ColumnOf(y_pred, k)
     IN <<n * SumSeq([i \in 1..n |-> SqErr(yk[i], pk[i])]),
          n * SumSeq(Squares(yk)) - SumSeq(yk) * SumSeq(yk)>>]

\* rmse = sqrt(mse): kept as the mse under the square root.
Metrics(y_true, y_pred) ==
  [rmse |-> mean_squared_error(y_true, y_pred),
   r2 |-> r2_score(y_true, y_pred),
   mae |-> mean_absolute_error(y_true, y_pred)]

\* ------------------------------------------------------- comparison table
\* pd.DataFrame(records, columns=...): one row per record, in list order.
DataFrame(records, columns) ==
  [columns |-> columns,
   index_name |-> "",
   index |-> [i \in 1..Len(records) |-> i - 1],
   rows |-> records]

DropAt(row, k) == SubSeq(row, 1, k - 1) \o SubSeq(row, k + 1, Len(row))

\* set_index followed by dropping rows whose label was already seen.
set_index_unique(df, name) ==
  LET k == IndexOf(df.columns, name)
      keep == SelectSeq([i \in 1..Len(df.rows) |-> i],
                        LAMBDA i : \A h \in 1..(i - 1) :
                                     df.rows[h][k] # df.rows[i][k])
  IN [columns |-> DropAt(df.columns, k),
      index_name |-> name,
      index |-> [i \in 1..Len(keep) |-> df.rows[keep[i]][k]],
      rows |-> [i \in 1..Len(keep) |-> DropAt(df.rows[keep[i]], k)]]

\* df.set_index(name): the column becomes the index, row by row; rows whose
\* labels repeat are kept.
set_index(df, name) ==
  LET k == IndexOf(df.columns, name)
  IN [columns |-> DropAt(df.columns, k),
      index_name |-> name,
      index |-> [i \in 1..Len(df.rows) |-> df.rows[i][k]],
      rows |-> [i \in 1..Len(df.rows) |-> DropAt(df.rows[i], k)]]

\* One pass of the comparison loop: what is appended to results.
ResultRow(est, Xtr, ytr, Xte, yte) ==
  LET pipeline == ModelFit(NewModel(est), Xtr, ytr)
      m == Metrics(yte, Predict(pipeline, Xte))
  IN <<ClassName(est), m.rmse, m.r2, m.mae>>

\* ------------------------------------------------------------- grid search
\* The parameter grid; learning_rate in hundredths.
GRID_n_estimators == <<50, 100, 200>>
GRID_learning_rate == <<1, 10, 100>>
GRID_max_depth == <<3, 5, 7>>
GRID_min_samples_leaf == <<1, 2, 3>>

\* ParameterGrid: the keys in sorted order (learning_rate, max_depth,
\* min_samples_leaf, n_estimators), the last key varying fastest.
\* A grid that lost one of its lists.
NumCandidatesThreeLists ==
  Len(GRID_learning_rate) * Len(GRID_max_depth) * Len(GRID_min_samples_leaf)

NumCandidates ==
  Len(GRID_learning_rate) * Len(GRID_max_depth)
    * Len(GRID_min_samples_leaf) * Len(GRID_n_estimators)

Candidate(c) ==
  LET n4 == Len(GRID_n_estimators)
      n3 == Len(GRID_min_samples_leaf)
      n2 == Len(GRID_max_depth)
      n1 == Len(GRID_learning_rate)
      z == c - 1
  IN [learning_rate |-> GRID_learning_rate[((z \div (n4 * n3 * n2)) % n1) + 1],
      max_depth |-> GRID_max_depth[((z \div (n4 * n3)) % n2) + 1],
      min_samples_leaf |-> GRID_min_samples_leaf[((z \div n4) % n3) + 1],
      n_estimators |-> GRID_n_estimators[(z % n4) + 1]]

\* estimator.set_params(**params) on a clone of the searched pipeline.
WithParams(est, prm) ==
  [est EXCEPT !.learning_rate = prm.learning_rate,
              !.max_depth = prm.max_depth,
              !.min_samples_leaf = prm.min_samples_leaf,
              !.n_estimators = prm.n_estimators]

\* The pipeline the notebook searches over.
estimator == GradientBoosting(100, 10, 3, 1)

\* KFold(n_splits) without shuffling: consecutive blocks, the first n % k
\* folds one row longer.
FoldSize(n, k, f) == (n \div k) + (IF f <= n % k THEN 1 ELSE 0)

RECURSIVE FoldStart(_, _, _)
FoldStart(n, k, f) ==
  IF f = 1 THEN 1 ELSE FoldStart(n, k, f - 1) + FoldSize(n, k, f - 1)

FoldTest(n, k, f) ==
  [i \in 1..FoldSize(n, k, f) |-> FoldStart(n, k, f) + i - 1]

FoldTrain(n, k, f) ==
  [i \in 1..(n - FoldSize(n, k, f)) |->
     IF i < FoldStart(n, k, f) THEN i ELSE i + FoldSize(n, k, f)]

\* One fit-and-score: the candidate is fitted on the fold's training rows and
\* scored on its test rows; the mean squared error <<sse, count>> (the score
\* 'neg_mean_squared_error' is its negation).
FoldError(est, X, y, k, f) ==
  LET n == Len(X)
      m == ModelFit(NewModel(est), Take(X, FoldTrain(n, k, f)),
                    Take(y, FoldTrain(n, k, f)))
  IN mean_squared_error(Take(y, FoldTest(n, k, f)),
                        Predict(m, Take(X, FoldTest(n, k, f))))

\* The mean of the fold errors as one fraction <<num, den>>.
MeanError(errs) ==
  LET P == ProdSeq([f \in 1..Len(errs) |-> errs[f][2]])
  IN <<SumSeq([f \in 1..Len(errs) |-> errs[f][1] * (P \div errs[f][2])]),
       Len(errs) * P>>

\* a/b <= c/d for positive denominators.
FracLeq(a, b) == a[1] * b[2] <= b[1] * a[2]

\* The candidate of the largest mean error (the sign of the score ignored).
WorstIndex(mean_errors) ==
  CHOOSE c \in 1..Len(mean_errors) :
    /\ \A d \in 1..Len(mean_errors) : FracLeq(mean_errors[d], mean_errors[c])
    /\ \A d \in 1..(c - 1) : ~FracLeq(mean_errors[c], mean_errors[d])

\* best_index_: rank_test_score ranks by mean score, ties share the best
\* rank, and argmin takes the first candidate of rank 1.
BestIndex(mean_errors) ==
  CHOOSE c \in 1..Len(mean_errors) :
    /\ \A d \in 1..Len(mean_errors) : FracLeq(mean_errors[c], mean_errors[d])
    /\ \A d \in 1..(c - 1) : ~FracLeq(mean_errors[d], mean_errors[c])

\* ------------------------------------------------------------- final model
\* The literal hyperparameters of the cell "Model Evaluation".
FinalEstimator == GradientBoosting(50, 10, 3, 2)

ParamsOf(est) ==
  [learning_rate |-> est.learning_rate, max_depth |-> est.max_depth,
   min_samples_leaf |-> est.min_samples_leaf, n_estimators |-> est.n_estimators]

\* ------------------------------------------------------------- input files
\* Training tables of n rows with the five required columns.
TrainRow(i, s) ==
  LET gender == (i + s) % 2
      height == 160 + ((3 * i + 5 * s) % 13)
      weight == 60 + ((7 * i + 2 * s) % 17)
  IN <<Num(gender), Num(height), Num(weight),
       Num(55 + ((height - 160) \div 2) + 5 * gender + ((i * s) % 3)),
       Num(60 + ((weight - 60) \div 3) + 4 * gender)>>

TrainDF(n, s) ==
  [columns |-> FeatureCols \o TargetCols,
   index |-> [i \in 1..n |-> i - 1],
   rows |-> [i \in 1..n |-> TrainRow(i, s)]]

\* Test tables: the required columns alone, with further columns (a number
\* and a text), and files that already carry prediction columns.
TestVariants == {"plain", "extra", "rerun", "partial"}
TestRowCount == 3

TestDF(variant) ==
  LET base(i) == TrainRow(i + 1, 4)
      cols == IF variant = "plain" THEN FeatureCols \o TargetCols
              ELSE IF variant = "extra"
              THEN <<"patient_id">> \o FeatureCols \o <<"side">> \o TargetCols
              ELSE IF variant = "rerun" THEN FeatureCols \o TargetCols \o PredCols
              ELSE <<"femur_dim_pred">> \o FeatureCols \o TargetCols
      row(i) == IF variant = "plain" THEN base(i)
                ELSE IF variant = "extra"
                THEN <<Num(100 + i)>> \o SubSeq(base(i), 1, 3)
                       \o <<Str(IF i % 2 = 0 THEN <<"L">> ELSE <<"R", "7">>)>>
                       \o SubSeq(base(i), 4, 5)
                ELSE IF variant = "rerun"
                THEN base(i) \o <<Num(-1 - i), Num(99)>>
                ELSE <<Num(7 * i)>> \o base(i)
  IN [columns |-> cols,
      index |-> [i \in 1..TestRowCount |-> i - 1],
      rows |-> [i \in 1..TestRowCount |-> row(i)]]

\* The file that holds a table: its header and one line of cell texts per
\* row.
FileOf(df) ==
  [kind |-> "file",
   header |-> df.columns,
   lines |-> [i \in 1..Len(df.rows) |->
                [j \in 1..Len(df.columns) |-> FormatCell(df.rows[i][j])]]]

\* A run's training file and the state its process-wide generator starts in.
TrainInputs ==
  {[file |-> f, rng |-> 0] : f \in {ABSENT, UNREADABLE}}
    \cup {[file |-> FileOf(TrainDF(n, s)), rng |-> (n + s) % NumRngStates] :
            n \in MinRows..MaxRows, s \in 1..NumSeeds}

\* A run's test file and what the output path holds before the run: the
\* output of an earlier run when the test file carries prediction columns,
\* nothing otherwise.
TestInputs ==
  {[file |-> f, old |-> ABSENT] : f \in {ABSENT, UNREADABLE}}
    \cup {[file |-> FileOf(TestDF(v)),
            old |-> IF v \in {"rerun", "partial"} THEN FileOf(TestDF("rerun"))
                    ELSE ABSENT] : v \in TestVariants}

Paths == {train_file_path, test_file_path, predictions_file_path}

\* ------------------------------------------------------------------- state
VARIABLES
  pc,          \* the cell the run is at, "done" or "crashed"
  fs,          \* the file system: what each path holds
  np_global,   \* state of numpy's process-wide random generator
  stdout,      \* the lines printed so far
  train_tka, test_tka,
  features, targets,
  X_train, X_test, y_train, y_test,
  scaler, X_train_scaled, X_test_scaled,
  loop_i,      \* position in base_estimators of the comparison loop
  results, results_df,
  grid_search, \* the GridSearchCV object and the position of its fit
  model,       \* the final model object
  last_metrics,\* the notebook globals rmse, r2, mae
  X_test_scaled_new, y_pred_test,
  tracking,    \* MLflow tracking uri / experiment set
  epoch,       \* loop variable of the logging run
  mlflow_log   \* what was sent to the tracking service, in order

vars == <<pc, fs, np_global, stdout, train_tka, test_tka, features, targets,
          X_train, X_test, y_train, y_test,
          scaler, X_train_scaled, X_test_scaled,
          loop_i, results, results_df, grid_search, model, last_metrics,
          X_test_scaled_new, y_pred_test, tracking, epoch, mlflow_log>>

\* The groups of variables of the later cells.
dataVars == <<train_tka, features, targets, X_train, X_test, y_train, y_test>>
scaledVars == <<scaler, X_train_scaled, X_test_scaled>>
compareVars == <<loop_i, results, results_df>>
mlflowVars == <<tracking, epoch, mlflow_log>>
predVars == <<X_test_scaled_new, y_pred_test>>
lateVars == <<loop_i, results, results_df, grid_search, model, last_metrics,
              X_test_scaled_new, y_pred_test, tracking, epoch, mlflow_log>>

NewGridSearch ==
  [cand |-> 1, fold |-> 1, fold_errors |-> <<>>, split_errors |-> <<>>,
   mean_errors |-> <<>>,
   evals |-> 0, fitted |-> FALSE,
   best_index_ |-> 0, best_params_ |-> None, best_score_ |-> <<0, 1>>]

Init ==
  /\ pc = "load"
  /\ \E i1 \in TrainInputs, i2 \in TestInputs :
       /\ fs = [p \in Paths |->
                  IF p = train_file_path THEN i1.file
                  ELSE IF p = test_file_path THEN i2.file ELSE i2.old]
       /\ np_global = i1.rng
  /\ stdout = <<>>
  /\ train_tka = None /\ test_tka = None
  /\ features = None /\ targets = None
  /\ X_train = None /\ X_test = None /\ y_train = None /\ y_test = None
  /\ scaler = None
  /\ X_train_scaled = <<>> /\ X_test_scaled = <<>>
  /\ loop_i = 1 /\ results = <<>> /\ results_df = None
  /\ grid_search = NewGridSearch
  /\ model = None
  /\ last_metrics = None
  /\ X_test_scaled_new = <<>> /\ y_pred_test = <<>>
  /\ tracking = [uri_set |-> FALSE, experiment_set |-> FALSE]
  /\ epoch = 0
  /\ mlflow_log = <<>>

\* Cell "Load Data".
LoadCell ==
  /\ pc = "load"
  /\ LET r == load_data(fs, train_file_path, test_file_path)
     IN /\ train_tka' = r.ret[1]
        /\ test_tka' = r.ret[2]
        /\ stdout' = stdout \o r.printed
                       \o (IF r.ret[1] # None /\ r.ret[2] # None
                           THEN <<MSG_LOADED>> ELSE <<>>)
  /\ pc' = "extract"
  /\ UNCHANGED <<fs, np_global, features, targets, X_train, X_test, y_train,
                 y_test, scaler, X_train_scaled, X_test_scaled>>
  /\ UNCHANGED lateVars

\* Cell "Separate features and targets": subscripting None raises TypeError,
\* a missing column raises KeyError; either ends the run.
HasCols(df, names) == \A k \in 1..Len(names) : HasCol(df, names[k])

\* The cell guarded by "if train_tka is not None": without tables it does
\* nothing and the run goes on to the next cell.
ExtractCellGuarded ==
  /\ pc = "extract"
  /\ IF train_tka # None /\ HasCols(train_tka, FeatureCols \o TargetCols)
     THEN /\ features' = Project(train_tka, FeatureCols)
          /\ targets' = Project(train_tka, TargetCols)
          /\ stdout' = stdout \o <<"Shape of features:", "Shape of targets:">>
     ELSE UNCHANGED <<features, targets, stdout>>
  /\ pc' = "split"
  /\ UNCHANGED <<fs, np_global, train_tka, test_tka, X_train, X_test, y_train,
                 y_test, scaler, X_train_scaled, X_test_scaled>>
  /\ UNCHANGED lateVars

ExtractCell ==
  /\ pc = "extract"
  /\ IF train_tka # None /\ HasCols(train_tka, FeatureCols \o TargetCols)
     THEN /\ features' = Project(train_tka, FeatureCols)
          /\ targets' = Project(train_tka, TargetCols)
          /\ stdout' = stdout \o <<"Shape of features:", "Shape of targets:">>
          /\ pc' = "split"
     ELSE /\ pc' = "crashed"
          /\ UNCHANGED <<features, targets, stdout>>
  /\ UNCHANGED <<fs, np_global, train_tka, test_tka, X_train, X_test, y_train,
                 y_test, scaler, X_train_scaled, X_test_scaled>>
  /\ UNCHANGED lateVars

\* Cell "Split the data into training and testing sets".
SplitCell ==
  /\ pc = "split"
  /\ LET r == train_test_split(features, targets, TEST_SIZE_DEN, RANDOM_STATE,
                               np_global)
     IN /\ X_train' = r.X_train
        /\ X_test' = r.X_test
        /\ y_train' = r.y_train
        /\ y_test' = r.y_test
  /\ stdout' = stdout \o <<"Training set size:", "Testing set size:">>
  /\ pc' = "scale"
  /\ UNCHANGED <<fs, np_global, train_tka, test_tka, features, targets,
                 scaler, X_train_scaled, X_test_scaled>>
  /\ UNCHANGED lateVars

\* Cell "Scale the features".
ScaleCell ==
  /\ pc = "scale"
  /\ LET r1 == ScalerFitTransform(NewScaler, Values(X_train))
         r2 == ScalerTransform(r1.scaler, Values(X_test))
     IN /\ X_train_scaled' = r1.out
        /\ X_test_scaled' = r2.out
        /\ scaler' = r2.scaler
  /\ pc' = "compare"
  /\ UNCHANGED <<fs, np_global, stdout, train_tka, test_tka, features, targets,
                 X_train, X_test, y_train, y_test>>
  /\ UNCHANGED lateVars

\* Cell "Define the base estimators": one pass of the loop over
\* base_estimators.
CompareStep ==
  /\ pc = "compare"
  /\ loop_i <= Len(base_estimators)
  /\ results' = Append(results,
                       ResultRow(base_estimators[loop_i], X_train_scaled,
                                 Values(y_train), X_test_scaled, Values(y_test)))
  /\ stdout' = Append(stdout, "Training and evaluating "
                                \o ClassName(base_estimators[loop_i]) \o "...")
  /\ loop_i' = loop_i + 1
  /\ UNCHANGED <<pc, fs, np_global, test_tka, results_df, grid_search, model,
                 last_metrics>>
  /\ UNCHANGED <<dataVars, scaledVars, predVars, mlflowVars>>

\* The same cell after the loop: the results table, 'Model' made its index.
CompareTable ==
  /\ pc = "compare"
  /\ loop_i > Len(base_estimators)
  /\ results_df' = set_index(DataFrame(results,
                                       <<"Model", "RMSE", "R2 Score", "MAE">>),
                             "Model")
  /\ pc' = "tune"
  /\ UNCHANGED <<fs, np_global, stdout, test_tka, loop_i, results, grid_search,
                 model, last_metrics>>
  /\ UNCHANGED <<dataVars, scaledVars, predVars, mlflowVars>>

\* Cell "Hyperparameter Tuning", grid_search.fit: one fit-and-score of the
\* current candidate on the current fold; after the last fold the candidate's
\* mean error is recorded.
GridStep ==
  /\ pc = "tune"
  /\ grid_search.cand <= NumCandidates
  /\ LET g == grid_search
         e == FoldError(WithParams(estimator, Candidate(g.cand)),
                        X_train_scaled, Values(y_train), CV, g.fold)
         errs == Append(g.fold_errors, e)
     IN grid_search' =
          IF g.fold < CV
          THEN [g EXCEPT !.fold = g.fold + 1, !.fold_errors = errs,
                         !.evals = g.evals + 1]
          ELSE [g EXCEPT !.cand = g.cand + 1, !.fold = 1,
                         !.fold_errors = <<>>,
                         !.split_errors = Append(g.split_errors, errs),
                         !.mean_errors = Append(g.mean_errors, MeanError(errs)),
                         !.evals = g.evals + 1]
  /\ stdout' = IF grid_search.evals = 0
               THEN Append(stdout, "Tuning hyperparameters for regression...")
               ELSE stdout
  /\ UNCHANGED <<pc, fs, np_global, test_tka, model, last_metrics>>
  /\ UNCHANGED <<dataVars, scaledVars, compareVars, predVars, mlflowVars>>

\* The end of grid_search.fit and the two prints: the best candidate, its
\* parameters and its mean score (the negated mean error).
GridSelect ==
  /\ pc = "tune"
  /\ grid_search.cand > NumCandidates
  /\ LET b == BestIndex(grid_search.mean_errors)
     IN grid_search' =
          [grid_search EXCEPT
             !.fitted = TRUE,
             !.best_index_ = b,
             !.best_params_ = Candidate(b),
             !.best_score_ = <<-grid_search.mean_errors[b][1],
                               grid_search.mean_errors[b][2]>>]
  /\ stdout' = stdout \o <<"Best parameters:", "Best score:">>
  /\ pc' = "evaluate"
  /\ UNCHANGED <<fs, np_global, test_tka, model, last_metrics>>
  /\ UNCHANGED <<dataVars, scaledVars, compareVars, predVars, mlflowVars>>

PrintMetrics == <<"RMSE:", "R2 Score:", "MAE:">>

\* Cell "Model Evaluation".
EvaluateCell ==
  /\ pc = "evaluate"
  /\ LET m == ModelFit(NewModel(FinalEstimator), X_train_scaled, Values(y_train))
     IN /\ model' = m
        /\ last_metrics' = Metrics(Values(y_test), Predict(m, X_test_scaled))
  /\ stdout' = stdout \o PrintMetrics
  /\ pc' = "predict"
  /\ UNCHANGED <<fs, np_global, test_tka, grid_search>>
  /\ UNCHANGED <<dataVars, scaledVars, compareVars, predVars, mlflowVars>>

\* Cell "Make Predictions": a missing column raises KeyError before anything
\* is written.
PredictCell ==
  /\ pc = "predict"
  /\ IF HasCols(test_tka, FeatureCols \o TargetCols)
     THEN LET X_test_new == Project(test_tka, FeatureCols)
              y_test_new == Project(test_tka, TargetCols)
              t == ScalerTransform(scaler, Values(X_test_new))
              pred == Predict(model, t.out)
              df1 == SetCol(test_tka, PredCols[1],
                            [i \in 1..Len(pred) |-> Num(pred[i][1])])
              df2 == SetCol(df1, PredCols[2],
                            [i \in 1..Len(pred) |-> Num(pred[i][2])])
          IN /\ scaler' = t.scaler
             /\ X_test_scaled_new' = t.out
             /\ y_pred_test' = pred
             /\ last_metrics' = Metrics(Values(y_test_new), pred)
             /\ test_tka' = df2
             /\ fs' = [fs EXCEPT ![predictions_file_path] = to_csv(df2)]
             /\ stdout' = stdout \o PrintMetrics
             /\ pc' = "connect"
     ELSE /\ pc' = "crashed"
          /\ UNCHANGED <<scaler, X_test_scaled_new, y_pred_test, last_metrics,
                         test_tka, fs, stdout>>
  /\ UNCHANGED <<np_global, X_train_scaled, X_test_scaled, grid_search, model>>
  /\ UNCHANGED <<dataVars, compareVars, mlflowVars>>

\* Cell "Connect to the workspace": needs the workspace configuration and the
\* network; a failure is not handled and ends the run.
ConnectCell ==
  /\ pc = "connect"
  /\ \E reachable \in BOOLEAN :
       IF reachable
       THEN /\ tracking' = [tracking EXCEPT !.uri_set = TRUE]
            /\ pc' = "experiment"
       ELSE /\ pc' = "crashed"
            /\ UNCHANGED tracking
  /\ UNCHANGED <<fs, np_global, stdout, test_tka, grid_search, model,
                 last_metrics, epoch, mlflow_log>>
  /\ UNCHANGED <<dataVars, scaledVars, compareVars, predVars>>

\* Cell "Set the MLflow experiment".
ExperimentCell ==
  /\ pc = "experiment"
  /\ tracking' = [tracking EXCEPT !.experiment_set = TRUE]
  /\ pc' = "log"
  /\ UNCHANGED <<fs, np_global, stdout, test_tka, grid_search, model,
                 last_metrics, epoch, mlflow_log>>
  /\ UNCHANGED <<dataVars, scaledVars, compareVars, predVars>>

Metric(key, value, step) ==
  [kind |-> "metric", key |-> key, value |-> value, step |-> step]

\* Cell "Start a run": one pass of the loop over range(NUM_EPOCHS).
LogEpoch ==
  /\ pc = "log"
  /\ epoch < NUM_EPOCHS
  /\ LET m == ModelFit(model, X_train_scaled, Values(y_train))
         mt == Metrics(Values(y_test), Predict(m, X_test_scaled))
     IN /\ model' = m
        /\ last_metrics' = mt
        /\ mlflow_log' = mlflow_log
                           \o << Metric("RMSE", mt.rmse, epoch),
                                 Metric("R2 Score", mt.r2, epoch),
                                 Metric("MAE", mt.mae, epoch) >>
  /\ epoch' = epoch + 1
  /\ UNCHANGED <<pc, fs, np_global, stdout, test_tka, grid_search, tracking>>
  /\ UNCHANGED <<dataVars, scaledVars, compareVars, predVars>>

\* The same cell after the loop: log_model, then log_params.
LogModelAndParams ==
  /\ pc = "log"
  /\ epoch >= NUM_EPOCHS
  /\ mlflow_log' = mlflow_log
                     \o << [kind |-> "model", key |-> "model", value |-> model,
                            step |-> -1],
                           [kind |-> "params", key |-> "params",
                            value |-> model.est, step |-> -1] >>
  /\ pc' = "client"
  /\ UNCHANGED <<fs, np_global, stdout, test_tka, grid_search, model,
                 last_metrics, tracking, epoch>>
  /\ UNCHANGED <<dataVars, scaledVars, compareVars, predVars>>

\* Last cell: MlflowClient() and get_experiment_by_name.
ClientCell ==
  /\ pc = "client"
  /\ pc' = "done"
  /\ UNCHANGED <<fs, np_global, stdout, test_tka, grid_search, model,
                 last_metrics>>
  /\ UNCHANGED <<dataVars, scaledVars, compareVars, predVars, mlflowVars>>

Next ==
  \/ LoadCell
  \/ ExtractCell
  \/ SplitCell
  \/ ScaleCell
  \/ CompareStep
  \/ CompareTable
  \/ GridStep
  \/ GridSelect
  \/ EvaluateCell
  \/ PredictCell
  \/ ConnectCell
  \/ ExperimentCell
  \/ LogEpoch
  \/ LogModelAndParams
  \/ ClientCell

Spec == Init /\ [][Next]_vars

\* ================================================================== claims
\* What the two input files hold never changes during a run, so the tables as
\* loaded can be read off the file system at any time.
TrainRead == read_csv(fs[train_file_path])
TestRead == read_csv(fs[test_file_path])
Loaded == pc # "load"
Diagnostics == {MSG_NOT_FOUND, MSG_ERROR}

\* C1: once load_data has returned, a failed read of either file means both
\* results are None and the first line printed is a diagnostic (the
\* not-found message when the first failure is an absent file, the error
\* message otherwise); the results are never one table and one None; and
\* they are two tables only when both reads succeeded, in which case they
\* have one row per line of their file and no diagnostic was printed.
C1_LoadAllOrNothing ==
  Loaded =>
    /\ (train_tka = None) <=> (test_tka = None)
    /\ (TrainRead.raised # NoExc \/ TestRead.raised # NoExc) =>
         /\ train_tka = None /\ test_tka = None
         /\ Len(stdout) >= 1 /\ stdout[1] \in Diagnostics
         /\ stdout[1] = MSG_NOT_FOUND <=>
              \/ TrainRead.raised = "FileNotFoundError"
              \/ TrainRead.raised = NoExc /\ TestRead.raised = "FileNotFoundError"
    /\ train_tka # None =>
         /\ TrainRead.raised = NoExc /\ TestRead.raised = NoExc
         /\ train_tka.columns = fs[train_file_path].header
         /\ Len(train_tka.rows) = Len(fs[train_file_path].lines)
         /\ Len(test_tka.rows) = Len(fs[test_file_path].lines)
         /\ \A i \in 1..Len(stdout) : stdout[i] \notin Diagnostics

\* The training file was read, the test file could not be: both are None.
C1_Witness ==
  /\ pc = "crashed"
  /\ TrainRead.raised = NoExc
  /\ TestRead.raised = "Exception"
  /\ train_tka = None /\ test_tka = None
  /\ stdout = <<MSG_ERROR>>

\* The export has happened (test tables are not empty).
Exported == Len(y_pred_test) > 0
Reloaded == read_csv(fs[predictions_file_path]).value
PredColumn(k) == [i \in 1..Len(y_pred_test) |-> Num(y_pred_test[i][k])]
SameRowsAsTest(out) ==
  /\ Len(out.rows) = Len(TestRead.value.rows)
  /\ out.index = TestRead.value.index
HoldsPredictions(out) ==
  /\ y_pred_test = Predict(model, ScalerTransform(scaler,
                      Values(Project(TestRead.value, FeatureCols))).out)
  /\ \A k \in 1..2 : HasCol(out, PredCols[k])
                       /\ Col(out, PredCols[k]) = PredColumn(k)

NewPredCols == SelectSeq(PredCols, LAMBDA c : ~HasCol(TestRead.value, c))

TrainStats == ScalerFit(NewScaler, Values(X_train))

\* Once fitted, the scaler holds the mean and variance of the training
\* partition's features, it was fitted once, the holdout features and the
\* test file's features are both transformed with those statistics, and no
\* step changes the scaler afterwards.
C3_StatsFromTrainOnly ==
  scaler # None =>
    /\ scaler.fit_calls = 1
    /\ scaler.mean_ = TrainStats.mean_
    /\ scaler.var_ = TrainStats.var_
    /\ X_train_scaled = ScalerTransform(TrainStats, Values(X_train)).out
    /\ X_test_scaled = ScalerTransform(TrainStats, Values(X_test)).out
    /\ Exported =>
         X_test_scaled_new
           = ScalerTransform(TrainStats,
                             Values(Project(TestRead.value, FeatureCols))).out

\* C3: the statistics are those of the training features in every state, and
\* every step leaves a fitted scaler as it was.
C3_ScalerFrozen ==
  /\ [](C3_StatsFromTrainOnly)
  /\ [][scaler # None => scaler' = scaler]_vars

\* Both transforms have run and the statistics differ from those of the
\* holdout features.
C3_Witness ==
  /\ Exported
  /\ scaler.fit_calls = 1
  /\ scaler.mean_ # ScalerFit(NewScaler, Values(X_test)).mean_
  /\ scaler.mean_
       # ScalerFit(NewScaler, Values(Project(TestRead.value, FeatureCols))).mean_

GridDone == grid_search.fitted

\* C4 as stated: the finished search has scored 135 (candidate, fold) pairs.
C4_Original == GridDone => grid_search.evals = 135

\* C4 amended: the 3x3x3x3 grid has 81 combinations, and with 5 folds the
\* finished search has scored exactly 405 (candidate, fold) pairs, 5 for each
\* of the 81 combinations.
C4_FoldScoreCount ==
  /\ grid_search.evals <= 405
  /\ GridDone =>
       /\ grid_search.evals = 405
       /\ Len(grid_search.split_errors) = 81
       /\ \A c \in 1..Len(grid_search.split_errors) :
            Len(grid_search.split_errors[c]) = 5

C4_Witness == GridDone /\ grid_search.evals = 405 /\ pc = "evaluate"

GridSize ==
  Len(GRID_n_estimators) * Len(GRID_learning_rate) * Len(GRID_max_depth)
    * Len(GRID_min_samples_leaf)

\* C5: the finished search has a mean error for every combination of the four
\* lists, each the mean over the 5 folds of the mean squared error of that
\* combination fitted on the fold's training rows; it returns one combination
\* of the grid, whose mean error is <= that of every combination, and the
\* best score (negated, as printed) is that mean error.
C5_BestIsMinimal ==
  GridDone =>
    LET me == grid_search.mean_errors
        b == grid_search.best_index_
    IN /\ Len(me) = GridSize
       /\ Cardinality({Candidate(c) : c \in 1..Len(me)}) = GridSize
       /\ \A c \in 1..Len(me) :
            /\ Candidate(c).n_estimators \in Range(GRID_n_estimators)
            /\ Candidate(c).learning_rate \in Range(GRID_learning_rate)
            /\ Candidate(c).max_depth \in Range(GRID_max_depth)
            /\ Candidate(c).min_samples_leaf \in Range(GRID_min_samples_leaf)
            /\ Len(grid_search.split_errors[c]) = CV
            /\ me[c] = MeanError(grid_search.split_errors[c])
       /\ pc = "evaluate" =>
            \A c \in 1..Len(me), f \in 1..CV :
              grid_search.split_errors[c][f]
                = FoldError(WithParams(estimator, Candidate(c)),
                            X_train_scaled, Values(y_train), CV, f)
       /\ b \in 1..Len(me)
       /\ grid_search.best_params_ = Candidate(b)
       /\ \A c \in 1..Len(me) : FracLeq(me[b], me[c])
       /\ grid_search.best_score_ = <<-me[b][1], me[b][2]>>

\* A finished search in which some combinations are strictly worse than the
\* best and another ties with it.
C5_Witness ==
  /\ GridDone
  /\ \E c \in 1..Len(grid_search.mean_errors) :
       ~FracLeq(grid_search.mean_errors[c],
                grid_search.mean_errors[grid_search.best_index_])
  /\ \E c \in 1..Len(grid_search.mean_errors) :
       /\ c # grid_search.best_index_
       /\ FracLeq(grid_search.mean_errors[c],
                  grid_search.mean_errors[grid_search.best_index_])

LoopDone == loop_i > Len(base_estimators)

\* C6: after the comparison loop the results have one row per entry of
\* base_estimators, in list order, labelled with the entry's class name and
\* carrying its metrics; the table indexed by Model has the same seven rows
\* in the same order, four of them labelled MultiOutputRegressor.
C6_SevenRows ==
  /\ Len(results) = (IF LoopDone THEN 7 ELSE loop_i - 1)
  /\ \A i \in 1..Len(results) : results[i][1] = ClassName(base_estimators[i])
  /\ pc = "compare" =>
       \A i \in 1..Len(results) :
         results[i] = ResultRow(base_estimators[i], X_train_scaled,
                                Values(y_train), X_test_scaled, Values(y_test))
  /\ results_df # None =>
       /\ Len(results_df.rows) = 7
       /\ Len(results_df.index) = 7
       /\ results_df.columns = <<"RMSE", "R2 Score", "MAE">>
       /\ \A i \in 1..7 :
            /\ results_df.index[i] = ClassName(base_estimators[i])
            /\ results_df.rows[i] = SubSeq(results[i], 2, 4)
       /\ Cardinality({i \in 1..Len(results_df.index) :
                         results_df.index[i] = "MultiOutputRegressor"}) = 4

\* The indexed table exists and two rows of the shared label differ.
C6_Witness ==
  /\ results_df # None
  /\ results_df.index[4] = "MultiOutputRegressor"
  /\ results_df.index[6] = "MultiOutputRegressor"
  /\ results_df.rows[4] # results_df.rows[6]

SplitDone == X_train # None

\* C7: the partition made with seed 8888 and test fraction 0.2 is the one
\* train_test_split gives for these tables whatever the state of the
\* process-wide generator; the train and test rows are disjoint and together
\* are every input row once; the test part has ceil(0.2 n) rows; each
\* feature row and its target row in a part are the rows of one input
\* position.
C7_PartitionDeterministic ==
  SplitDone =>
    LET n == Len(features.rows)
        tr == X_train.index
        te == X_test.index
    IN /\ \A g \in 0..NumRngStates :
            train_test_split(features, targets, TEST_SIZE_DEN, RANDOM_STATE, g)
              = [X_train |-> X_train, X_test |-> X_test,
                 y_train |-> y_train, y_test |-> y_test]
       /\ Range(tr) \cap Range(te) = {}
       /\ Range(tr) \cup Range(te) = 0..(n - 1)
       /\ Len(tr) + Len(te) = n
       /\ 5 * Len(te) >= n /\ 5 * (Len(te) - 1) < n
       /\ y_train.index = tr /\ y_test.index = te
       /\ \A k \in 1..Len(tr) :
            /\ X_train.rows[k] = features.rows[tr[k] + 1]
            /\ y_train.rows[k] = targets.rows[tr[k] + 1]
       /\ \A k \in 1..Len(te) :
            /\ X_test.rows[k] = features.rows[te[k] + 1]
            /\ y_test.rows[k] = targets.rows[te[k] + 1]

\* A partition that moved rows: the first train row is not the first input
\* row and the test rows are not the first rows of the input.
C7_Witness ==
  /\ SplitDone
  /\ X_train.index[1] # 0
  /\ X_test.index # [k \in 1..Len(X_test.index) |-> k - 1]
  /\ np_global # 0

\* C8 as stated: the hyperparameters of the final model are the combination
\* the grid search of the run returned.
C8_Original ==
  model # None => ParamsOf(model.est) = grid_search.best_params_

LogEntry(i) == mlflow_log[i]
LogFinished == pc \in {"client", "done"}

\* C9: the log holds, for each finished step e = 0, 1, ... in order, the
\* metrics RMSE, R2 Score and MAE of step e, once each and in that order,
\* with the values of step 0; nothing is logged before the logging cell; the
\* loop ends after step 99; then come the model artifact and after it the
\* parameters, once each, as the last two entries; each step leaves the model
\* fitted on the training partition.
C9_LogSequence ==
  /\ epoch \in 0..100
  /\ pc \notin {"log", "client", "done"} => mlflow_log = <<>> /\ epoch = 0
  /\ Len(mlflow_log) = 3 * epoch + (IF LogFinished THEN 2 ELSE 0)
  /\ \A e \in 0..(epoch - 1) :
       /\ LogEntry(3 * e + 1).kind = "metric" /\ LogEntry(3 * e + 1).key = "RMSE"
       /\ LogEntry(3 * e + 2).kind = "metric"
       /\ LogEntry(3 * e + 2).key = "R2 Score"
       /\ LogEntry(3 * e + 3).kind = "metric" /\ LogEntry(3 * e + 3).key = "MAE"
       /\ \A k \in 1..3 :
            /\ LogEntry(3 * e + k).step = e
            /\ LogEntry(3 * e + k).value = LogEntry(k).value
  /\ epoch > 0 =>
       /\ model.fitted = Fit(model.est, X_train_scaled, Values(y_train))
       /\ LogEntry(1).value = mean_squared_error(Values(y_test),
                                                 Predict(model, X_test_scaled))
       /\ LogEntry(3).value = mean_absolute_error(Values(y_test),
                                                  Predict(model, X_test_scaled))
  /\ LogFinished =>
       /\ epoch = 100
       /\ Len(mlflow_log) = 302
       /\ LogEntry(301).kind = "model" /\ LogEntry(301).value = model
       /\ LogEntry(302).kind = "params" /\ LogEntry(302).value = model.est

C9_Witness ==
  /\ pc = "done"
  /\ Len(mlflow_log) = 302
  /\ LogEntry(300).step = 99
  /\ LogEntry(300).key = "MAE"

SameFamily(a, b) == a.cls = b.cls /\ a.inner = b.inner
SmallestMAE(i) ==
  \A j \in 1..Len(results_df.rows) :
    FracLeq(results_df.rows[i][3], results_df.rows[j][3])

\* C10 as stated: the family that is tuned, and that of the final model, is
\* that of an estimator whose MAE in the comparison table is the smallest.
C10_Original ==
  grid_search.evals > 0 =>
    \E i \in 1..Len(results_df.rows) :
      /\ SmallestMAE(i)
      /\ SameFamily(base_estimators[i], estimator)
      /\ model # None => SameFamily(base_estimators[i], model.est)

LoadFailed == Loaded /\ train_tka = None /\ test_tka = None
WritesPredictions == fs'[predictions_file_path] # fs[predictions_file_path]
ReadyToExport ==
  /\ train_tka # None /\ test_tka # None
  /\ TrainRead.raised = NoExc /\ TestRead.raised = NoExc
  /\ scaler # None /\ scaler.fitted
  /\ model # None /\ model.fitted # None
  /\ grid_search.fitted

\* In a run whose load returned (None, None) nothing was fitted, logged or
\* connected, and the run is at the extraction cell or has ended there.
NothingAfterFailedLoad ==
  LoadFailed =>
    /\ pc \in {"extract", "crashed"}
    /\ features = None /\ targets = None /\ X_train = None
    /\ scaler = None /\ model = None
    /\ results = <<>> /\ grid_search.evals = 0
    /\ y_pred_test = <<>>
    /\ mlflow_log = <<>> /\ ~tracking.uri_set /\ ~tracking.experiment_set

\* C11: a step writes the prediction file only in a state where both tables
\* are loaded, the scaler is fitted and the final model is fitted; in a run
\* whose load_data returned (None, None) the only step is the extraction
\* cell, which ends the run and changes no file, scaler, model or log, and a
\* run that ended takes no further step.
C11_ExportOnlyAfterFits ==
  /\ [](NothingAfterFailedLoad)
  /\ [][WritesPredictions => ReadyToExport /\ pc = "predict"]_vars
  /\ [][LoadFailed =>
          /\ pc = "extract" /\ pc' = "crashed"
          /\ fs' = fs /\ scaler' = None /\ model' = None
          /\ mlflow_log' = <<>> /\ tracking' = tracking]_vars
  /\ [][pc # "crashed"]_vars

\* A run whose training file is absent has ended at the extraction cell with
\* nothing written.
C11_Witness ==
  /\ pc = "crashed"
  /\ TrainRead.raised = "FileNotFoundError"
  /\ LoadFailed
  /\ scaler = None /\ model = None
  /\ mlflow_log = <<>>
  /\ stdout = <<MSG_NOT_FOUND>>

====
